---- MODULE Spec2Model ----
(***************************************************************************)
(* A model of text-metrics: the unit converter (pxValue), the spacing      *)
(* add-on, the two line-packing policies (computeLinesDefault,             *)
(* computeLinesBreakAll), the text preparation helpers and the             *)
(* TextMetrics facade (parseArgs, lines, height, maxFontSize).             *)
(*                                                                         *)
(* Strings are sequences of code points (UTF-16 units; every character     *)
(* used here is in the BMP).  Pixel lengths are JavaScript numbers, IEEE    *)
(* doubles, and the arithmetic on them rounds as the hardware does.        *)
(***************************************************************************)
EXTENDS Integers, Sequences, FiniteSets, TLC

VARIABLES
  pc,          \* position of the operation under way
  parameters,  \* ComputeLinesParams handed to a line-packing policy
  result,      \* what the finished operation returned (or the error it threw)
  widthAt,     \* maxFontSize: the width the text renders at, per font size
  max,         \* maxFontSize: the width budget
  size,        \* maxFontSize: the font size under trial
  cur,         \* maxFontSize: the width computed last
  greater,     \* maxFontSize: whether the search walks down
  calls,       \* maxFontSize: how many times compute was called
  self,        \* the TextMetrics instance: el, overwrites
  host,        \* the browser the instance runs in: whether it has a canvas
  args         \* the arguments of the call under way

lineVars == <<parameters, self, host, args>>

fitVars == <<widthAt, max, size, cur, greater, calls>>

vars == <<pc, result, lineVars, fitVars>>

\* A variable that the specification at hand does not use.
Unused == [unused |-> TRUE]

(***************************************************************************)
(* Bounds                                                                  *)
(***************************************************************************)
MaxLen == 4      \* longest text handed to a line-packing policy
MaxWidth == 3    \* largest finite maximum width, in px
MaxGlyph == 2    \* widest letter glyph, in px at the context's font size
MaxBudget == 4   \* largest width budget of maxFontSize, in px

(***************************************************************************)
(* Generic string helpers                                                  *)
(***************************************************************************)
RECURSIVE Flatten(_)
Flatten(ss) == IF ss = <<>> THEN <<>> ELSE Head(ss) \o Flatten(Tail(ss))

RECURSIVE Filter(_, _)
Filter(s, keep) ==
  IF s = <<>> THEN <<>>
  ELSE (IF Head(s) \in keep THEN <<Head(s)>> ELSE <<>>) \o Filter(Tail(s), keep)

RECURSIVE Count(_, _)
Count(s, set) ==
  IF s = <<>> THEN 0
  ELSE (IF Head(s) \in set THEN 1 ELSE 0) + Count(Tail(s), set)

\* TRUE iff t occurs in s at position i (1-based)
MatchAt(s, t, i) ==
  /\ i >= 1
  /\ i + Len(t) - 1 <= Len(s)
  /\ \A k \in 1..Len(t) : s[i + k - 1] = t[k]

EndsWith(s, t) == Len(t) <= Len(s) /\ SubSeq(s, Len(s) - Len(t) + 1, Len(s)) = t

\* String.prototype.indexOf, 1-based; 0 when t does not occur in s
IndexOf(s, t) ==
  LET hits == {i \in 1..(Len(s) + 1) : MatchAt(s, t, i)}
  IN IF hits = {} THEN 0 ELSE CHOOSE i \in hits : \A j \in hits : i <= j

\* String.prototype.replace(t, '') with a string pattern: the first occurrence
ReplaceFirst(s, t) ==
  LET i == IndexOf(s, t)
  IN IF i = 0 THEN s
     ELSE SubSeq(s, 1, i - 1) \o SubSeq(s, i + Len(t), Len(s))

\* All sequences over alphabet of length at most n
RECURSIVE SeqsUpTo(_, _)
SeqsUpTo(alphabet, n) ==
  IF n = 0 THEN {<<>>}
  ELSE LET shorter == SeqsUpTo(alphabet, n - 1)
       IN shorter \cup {<<c>> \o s : c \in alphabet, s \in {t \in shorter : Len(t) = n - 1}}

\* The characters the regular-expression class \s and String.trim() take for
\* whitespace.
JsWhitespace ==
  {9, 10, 11, 12, 13, 32, 160, 5760, 8232, 8233, 8239, 8287, 12288, 65279}
    \cup (8192..8202)

RECURSIVE TrimLeft(_)
TrimLeft(s) ==
  IF s # <<>> /\ Head(s) \in JsWhitespace THEN TrimLeft(Tail(s)) ELSE s

RECURSIVE TrimRight(_)
TrimRight(s) ==
  IF s # <<>> /\ s[Len(s)] \in JsWhitespace
  THEN TrimRight(SubSeq(s, 1, Len(s) - 1)) ELSE s

\* String.prototype.trim
Trim(s) == TrimRight(TrimLeft(s))

\* replace(/\s+/g, ' '): every maximal run of whitespace becomes one U+0020
RECURSIVE CollapseWs(_)
CollapseWs(s) ==
  IF s = <<>> THEN <<>>
  ELSE IF Head(s) \in JsWhitespace
       THEN <<32>> \o CollapseWs(TrimLeft(s))
       ELSE <<Head(s)>> \o CollapseWs(Tail(s))

(***************************************************************************)
(* JavaScript numbers: IEEE 754 doubles                                    *)
(*                                                                         *)
(* A non-negative finite double is held as [m, e] for the value m * 2^e,   *)
(* with m an odd natural number of at most 53 bits (or m = 0, e = 0).  So  *)
(* that m fits the integers of the model checker, it is written as its     *)
(* digits in base 2^14, lowest first, without leading zero digits; 0 is    *)
(* the digitless <<>>.  Every operation below gives the double the         *)
(* hardware gives: the exact result rounded to 53 bits, ties to even.      *)
(* Subnormals and overflow are out of the range of the values used.  The   *)
(* big* operators are arithmetic on naturals in that writing; the d*       *)
(* operators are the operations of the source on doubles.                  *)
(***************************************************************************)
Base == 2 ^ 14

RECURSIVE bitLen(_)
bitLen(n) == IF n = 0 THEN 0 ELSE 1 + bitLen(n \div 2)

RECURSIVE trailingZeros(_)
trailingZeros(n) == IF n % 2 = 1 THEN 0 ELSE 1 + trailingZeros(n \div 2)

RECURSIVE bigOfInt(_)
bigOfInt(n) == IF n = 0 THEN <<>> ELSE <<n % Base>> \o bigOfInt(n \div Base)

RECURSIVE bigToInt(_)
bigToInt(a) == IF a = <<>> THEN 0 ELSE Head(a) + Base * bigToInt(Tail(a))

RECURSIVE bigTrim(_)
bigTrim(a) ==
  IF a # <<>> /\ a[Len(a)] = 0 THEN bigTrim(SubSeq(a, 1, Len(a) - 1)) ELSE a

\* a * k + carry for a small natural k
RECURSIVE bigMul(_, _, _)
bigMul(a, k, carry) ==
  IF a = <<>> THEN bigOfInt(carry)
  ELSE <<(Head(a) * k + carry) % Base>> \o bigMul(Tail(a), k, (Head(a) * k + carry) \div Base)

divDigit(digit, k, higher) ==
  [q |-> <<(higher.r * Base + digit) \div k>> \o higher.q,
   r |-> (higher.r * Base + digit) % k]

\* Quotient (with leading zero digits) and remainder of a by a small k > 0
RECURSIVE bigDivRem(_, _)
bigDivRem(a, k) ==
  IF a = <<>> THEN [q |-> <<>>, r |-> 0]
  ELSE divDigit(Head(a), k, bigDivRem(Tail(a), k))

digitOr0(a) == IF a = <<>> THEN 0 ELSE Head(a)

tailOrNone(a) == IF a = <<>> THEN <<>> ELSE Tail(a)

RECURSIVE bigAdd(_, _, _)
bigAdd(a, b, carry) ==
  IF a = <<>> /\ b = <<>> THEN bigOfInt(carry)
  ELSE <<(digitOr0(a) + digitOr0(b) + carry) % Base>>
       \o bigAdd(tailOrNone(a), tailOrNone(b), (digitOr0(a) + digitOr0(b) + carry) \div Base)

\* -1, 0 or 1 as a < b, a = b or a > b
RECURSIVE bigCmp(_, _)
bigCmp(a, b) ==
  IF Len(a) # Len(b) THEN (IF Len(a) < Len(b) THEN -1 ELSE 1)
  ELSE IF a = <<>> THEN 0
  ELSE IF a[Len(a)] # b[Len(b)] THEN (IF a[Len(a)] < b[Len(b)] THEN -1 ELSE 1)
  ELSE bigCmp(SubSeq(a, 1, Len(a) - 1), SubSeq(b, 1, Len(b) - 1))

bigBits(a) == IF a = <<>> THEN 0 ELSE 14 * (Len(a) - 1) + bitLen(a[Len(a)])

\* a * 2^n
bigShl(a, n) ==
  IF a = <<>> THEN <<>>
  ELSE [i \in 1..(n \div 14) |-> 0] \o bigMul(a, 2 ^ (n % 14), 0)

shrDigits(low, d) ==
  [q |-> bigTrim(d.q), sticky |-> d.r # 0 \/ \E i \in 1..Len(low) : low[i] # 0]

\* floor(a / 2^n), and whether a bit was lost
bigShr(a, n) ==
  IF n \div 14 >= Len(a) THEN [q |-> <<>>, sticky |-> a # <<>>]
  ELSE shrDigits(SubSeq(a, 1, n \div 14),
                 bigDivRem(SubSeq(a, (n \div 14) + 1, Len(a)), 2 ^ (n % 14)))

dZero == [m |-> <<>>, e |-> 0]

\* A double whose m is one digit and whose e is near 0: the operations on
\* two of them are computed in the integers, with the same result
small(x) == Len(x.m) = 1 /\ x.e >= -14 /\ x.e <= 14

\* The double m * 2^e with m of at most 53 bits: m is made odd
RECURSIVE dOdd(_, _)
dOdd(m, e) ==
  IF m = <<>> THEN dZero
  ELSE IF Head(m) = 0 THEN dOdd(Tail(m), e + 14)
  ELSE IF Head(m) % 2 = 1 THEN [m |-> m, e |-> e]
  ELSE [m |-> bigTrim(bigDivRem(m, 2 ^ trailingZeros(Head(m))).q),
        e |-> e + trailingZeros(Head(m))]

\* half is floor(m / 2^(x - 1)): its last bit is the rounding bit
roundHalf(half, e, sticky) ==
  dOdd(bigAdd(bigShr(half.q, 1).q,
              <<>>,
              IF half.q[1] % 2 = 1 /\ (half.sticky \/ sticky \/ (half.q[1] \div 2) % 2 = 1)
                THEN 1 ELSE 0),
       e)

\* m * 2^e (and a little more when sticky) rounded to 53 bits, ties to even
round53(m, e, sticky) ==
  IF Len(m) <= 3 \/ bigBits(m) <= 53 THEN dOdd(m, e)
  ELSE roundHalf(bigShr(m, bigBits(m) - 54), e + bigBits(m) - 53, sticky)

dOfInt(n) == dOdd(bigOfInt(n), 0)

ratioRounded(d, bits) == round53(bigTrim(d.q), 0 - bits, d.r # 0)

\* The double nearest to n / d, for naturals n < 2^31 and d with 0 < d < 2^16
dOfRatio(n, d) ==
  IF d = 1 THEN dOfInt(n)
  ELSE ratioRounded(bigDivRem(bigShl(bigOfInt(n), 70), d), 70)

\* x * k for a natural k < 2^16
dMulInt(x, k) ==
  IF k = 0 \/ x.m = <<>> THEN dZero
  ELSE IF Len(x.m) = 1 THEN dOdd(bigOfInt(x.m[1] * k), x.e)
  ELSE round53(bigMul(x.m, k, 0), x.e, FALSE)

\* x * 2^n, which is exact
dScale2(x, n) == IF x.m = <<>> THEN x ELSE [x EXCEPT !.e = @ + n]

dMin(a, b) == IF a < b THEN a ELSE b

dAddAt(x, y, e) == round53(bigAdd(bigShl(x.m, x.e - e), bigShl(y.m, y.e - e), 0), e, FALSE)

\* x + y
dAdd(x, y) ==
  IF x.m = <<>> THEN y
  ELSE IF y.m = <<>> THEN x
  ELSE IF small(x) /\ x.e = y.e /\ Len(y.m) = 1 THEN dOdd(bigOfInt(x.m[1] + y.m[1]), x.e)
  ELSE dAddAt(x, y, dMin(x.e, y.e))

dCmpAt(x, y, e) == bigCmp(bigShl(x.m, x.e - e), bigShl(y.m, y.e - e))

\* -1, 0 or 1 as x < y, x = y or x > y
dCmp(x, y) ==
  IF x.m = <<>> THEN (IF y.m = <<>> THEN 0 ELSE -1)
  ELSE IF y.m = <<>> THEN 1
  ELSE dCmpAt(x, y, dMin(x.e, y.e))

\* Math.floor(x) and Math.ceil(x), as integers
dFloor(x) ==
  IF x.m = <<>> THEN 0
  ELSE IF small(x) THEN (IF x.e >= 0 THEN x.m[1] * 2 ^ x.e ELSE x.m[1] \div 2 ^ (0 - x.e))
  ELSE IF x.e >= 0 THEN bigToInt(bigShl(x.m, x.e))
  ELSE bigToInt(bigShr(x.m, 0 - x.e).q)

dCeil(x) == IF x.e >= 0 THEN dFloor(x) ELSE dFloor(x) + 1

\* Math.round(x): floor(x + 1/2), computed exactly
dRound(x) ==
  IF x.e >= 0 THEN dFloor(x)
  ELSE IF small(x) THEN (x.m[1] + 2 ^ ((0 - x.e) - 1)) \div 2 ^ (0 - x.e)
  ELSE bigToInt(bigShr(bigAdd(x.m, bigShl(<<1>>, (0 - x.e) - 1), 0), 0 - x.e).q)

threeRoundedUp(n, e) ==
  IF bigBits(n) <= 53 THEN dOdd(n, e)
  ELSE dOdd(bigAdd(bigShr(n, bigBits(n) - 53).q, <<>>,
                   IF bigShr(n, bigBits(n) - 53).sticky THEN 1 ELSE 0),
            e + bigBits(n) - 53)

\* x / (96 / 72).  96 / 72 is the double (2^54 - 1) / (3 * 2^52), so the exact
\* quotient is 3 * x / 4 * (1 + 2^-54 + 2^-108 + ...): it lies above 3 * x / 4
\* by 3/4 to 3/2 of the last bit of 3 * m, and its nearest double is 3 * m
\* rounded up to 53 bits.
dDivFourThirds(x) == threeRoundedUp(bigMul(x.m, 3, 0), x.e - 2)

(***************************************************************************)
(* Break classes (part_001 lines 13-91)                                    *)
(***************************************************************************)
B2 == {8212}

SHY == {173}

BAI ==
  {32, 5760, 8192, 8193, 8194, 8195, 8196, 8197, 8198, 8200, 8201, 8202,
   8287, 12288, 9, 8203, 8232, 8233}

\* The source also lists '\u10100' ... '\u12470': each is a string of two
\* UTF-16 units, which no single character equals, so they are no members.
BA ==
  {1418, 8208, 8210, 8211, 1470, 3851, 4961, 6104, 6106, 8231, 124, 5867,
   5868, 5869, 8278, 8280, 8281, 8282, 8283, 8285, 8286, 11801, 11818,
   11819, 11820, 11821, 11824}

BB == {180, 8189}

BK == {10}

checkBreak(chr) ==
  IF chr \in B2 THEN "B2"
  ELSE IF chr \in BAI THEN "BAI"
  ELSE IF chr \in SHY THEN "SHY"
  ELSE IF chr \in BA THEN "BA"
  ELSE IF chr \in BB THEN "BB"
  ELSE IF chr \in BK THEN "BK"
  ELSE "false"

(***************************************************************************)
(* Numbers: parseFloat, Number.prototype.toString, pxValue                 *)
(***************************************************************************)
Digits == 48..57

\* A JavaScript number that is NaN or a non-negative decimal m / 10^e
NaN == [nan |-> TRUE, m |-> 0, e |-> 0]

Dec(m, e) == [nan |-> FALSE, m |-> m, e |-> e]

RECURSIVE Pow10(_)
Pow10(e) == IF e = 0 THEN 1 ELSE 10 * Pow10(e - 1)

RECURSIVE DigitRun(_, _)
DigitRun(s, i) ==
  IF i <= Len(s) /\ s[i] \in Digits THEN 1 + DigitRun(s, i + 1) ELSE 0

RECURSIVE DigitsValue(_)
DigitsValue(d) ==
  IF d = <<>> THEN 0
  ELSE 10 * DigitsValue(SubSeq(d, 1, Len(d) - 1)) + (d[Len(d)] - 48)

\* The decimal read from t, whose first n characters are digits and whose
\* fraction has f digits
readDigits(t, n, f) ==
  IF n = 0 /\ f = 0 THEN NaN
  ELSE Dec(DigitsValue(SubSeq(t, 1, n) \o SubSeq(t, n + 2, n + 1 + f)), f)

readFraction(t, n) ==
  readDigits(t, n, IF n + 1 <= Len(t) /\ t[n + 1] = 46 THEN DigitRun(t, n + 2) ELSE 0)

readNumber(t) == readFraction(t, DigitRun(t, 1))

\* parseFloat: skips leading whitespace, then reads the longest prefix that is
\* digits, digits.digits, digits. or .digits (signs, exponents and Infinity
\* are not part of the inputs drawn here); NaN when there is none.
parseFloat(s) == readNumber(TrimLeft(s))

\* The shortest decimal writing of the number: no trailing fractional zeros
RECURSIVE Normalize(_)
Normalize(v) ==
  IF v.e > 0 /\ v.m % 10 = 0
  THEN Normalize([v EXCEPT !.m = @ \div 10, !.e = @ - 1])
  ELSE v

RECURSIVE NatToString(_)
NatToString(n) ==
  IF n < 10 THEN <<48 + n>> ELSE NatToString(n \div 10) \o <<48 + (n % 10)>>

RECURSIVE PadLeft(_, _)
PadLeft(d, width) == IF Len(d) >= width THEN d ELSE PadLeft(<<48>> \o d, width)

\* The writing of a decimal without trailing fractional zeros
writeDecimal(w) ==
  NatToString(w.m \div Pow10(w.e)) \o
    (IF w.e = 0 THEN <<>> ELSE <<46>> \o PadLeft(NatToString(w.m % Pow10(w.e)), w.e))

\* Number.prototype.toString of a NaN or of a decimal
toString(v) ==
  IF v.nan THEN <<78, 97, 78>> ELSE writeDecimal(Normalize(v))

\* The double a decimal m / 10^e reads as: the one nearest to it (the
\* decimals among the inputs have m below 2^31 and at most four fractional
\* digits)
toDouble(v) == dOfRatio(v.m, Pow10(v.e))

\* prop(options, 'base-font-size', 16): options.base is 0 when the option is
\* absent (or falsy), and then the default is taken
DefaultBaseFontSize == 16

baseFontSizeOf(options) ==
  IF options.base # 0 THEN options.base ELSE DefaultBaseFontSize

Px(v) == [ok |-> TRUE, nan |-> FALSE, v |-> v, unit |-> <<>>]

PxNaN == [ok |-> TRUE, nan |-> TRUE, v |-> dZero, unit |-> <<>>]

\* throw new Error('The unit ' + unit + ' is not supported')
PxError(unit) == [ok |-> FALSE, nan |-> FALSE, v |-> dZero, unit |-> unit]

\* The unit pxValue finds: value_.replace(value.toString(), '')
unitOf(value_) == ReplaceFirst(value_, toString(parseFloat(value_)))

\* switch (unit) (lines 113-123)
switchUnit(baseFontSize, value, unit) ==
  IF unit = <<114, 101, 109>> \/ unit = <<101, 109>>          \* rem, em
    THEN IF value.nan THEN PxNaN ELSE Px(dMulInt(toDouble(value), baseFontSize))
  ELSE IF unit = <<112, 116>>                                 \* pt
    THEN IF value.nan THEN PxNaN ELSE Px(dDivFourThirds(toDouble(value)))
  ELSE IF unit = <<112, 120>>                                 \* px
    THEN IF value.nan THEN PxNaN ELSE Px(toDouble(value))
  ELSE PxError(unit)

pxValue(value_, options) ==
  switchUnit(baseFontSizeOf(options), parseFloat(value_), unitOf(value_))

\* pxValue(value) as getFont and addWordAndLetterSpacing call it
NoOptions == [base |-> 0]

(***************************************************************************)
(* Spacing add-on (part_001 lines 129-148)                                 *)
(***************************************************************************)
blacklist ==
  { <<105, 110, 104, 101, 114, 105, 116>>,     \* inherit
    <<105, 110, 105, 116, 105, 97, 108>>,      \* initial
    <<117, 110, 115, 101, 116>>,               \* unset
    <<110, 111, 114, 109, 97, 108>> }          \* normal

addons(word, letter) ==
  IF ~word.ok THEN [ok |-> FALSE, wordAddon |-> dZero, letterAddon |-> dZero, unit |-> word.unit]
  ELSE IF ~letter.ok THEN [ok |-> FALSE, wordAddon |-> dZero, letterAddon |-> dZero, unit |-> letter.unit]
  ELSE [ok |-> TRUE, wordAddon |-> word.v, letterAddon |-> letter.v, unit |-> <<>>]

\* The two add-ons, or the error of the conversion that failed first.
\* An add-on that converts to NaN is not among the inputs drawn here.
addWordAndLetterSpacing(ws, ls) ==
  addons(IF ws # <<>> /\ ws \notin blacklist THEN pxValue(ws, NoOptions) ELSE Px(dZero),
         IF ls # <<>> /\ ls \notin blacklist THEN pxValue(ls, NoOptions) ELSE Px(dZero))

\* The function addWordAndLetterSpacing returns, applied to text
addSpacing(spacing, text) ==
  dAdd(dMulInt(spacing.wordAddon, Count(CollapseWs(Trim(text)), {32})),
       dMulInt(spacing.letterAddon, Len(text)))

(***************************************************************************)
(* The rendering context: ctx.measureText(text).width                      *)
(***************************************************************************)
\* A context is [size, letter, shy]: the font size in px, and the advance in
\* px at 16px of a letter and of the soft hyphen; every other character
\* advances 1px at 16px.  Advances add up, and scale with the font size.
Letters == (65..90) \cup (97..122)

advance(ctx, chr) ==
  IF chr \in Letters THEN ctx.letter
  ELSE IF chr \in SHY THEN ctx.shy
  ELSE 1

RECURSIVE advanceSum(_, _)
advanceSum(ctx, text) ==
  IF text = <<>> THEN 0 ELSE advance(ctx, Head(text)) + advanceSum(ctx, Tail(text))

measureText(ctx, text) == dScale2(dMulInt(ctx.size, advanceSum(ctx, text)), -4)

\* Math.round and Math.ceil of a non-negative length, as integers
round(raw) == dRound(raw)

ceil(raw) == dCeil(raw)

\* A maximum is an integer or NaN; every comparison with NaN is false
Num(v) == [nan |-> FALSE, v |-> v]

NotANumber == [nan |-> TRUE, v |-> 0]

\* width <= max and width > max for a rounded width
fits(width, limit) == ~limit.nan /\ width <= limit.v

exceeds(width, limit) == ~limit.nan /\ width > limit.v

\* raw <= max for a length that is not rounded (and not negative)
fitsRaw(raw, limit) ==
  ~limit.nan /\ limit.v >= 0 /\ dCmp(raw, dOfInt(limit.v)) <= 0

(***************************************************************************)
(* Line packing (part_001 lines 379-554)                                   *)
(***************************************************************************)
\* What a policy returns: the lines, or the error it threw
Return(ls) == [ok |-> TRUE, lines |-> ls, unit |-> <<>>, canvas |-> FALSE]

\* throw new Error('The unit ' + unit + ' is not supported'), out of pxValue
Throw(unit) == [ok |-> FALSE, lines |-> <<>>, unit |-> unit, canvas |-> FALSE]

\* One turn of the loop that computes the array of breakpoints
scanChar(st, chr) ==
  LET type == checkBreak(chr)
  IN IF st.part = <<>> /\ type = "BAI" THEN st
     ELSE IF type # "false"
       THEN [parts |-> Append(st.parts, st.part),
             breakpoints |-> Append(st.breakpoints, [chr |-> chr, type |-> type]),
             part |-> <<>>]
     ELSE [st EXCEPT !.part = Append(@, chr)]

RECURSIVE scanFrom(_, _)
scanFrom(st, text) ==
  IF text = <<>> THEN st ELSE scanFrom(scanChar(st, Head(text)), Tail(text))

\* The parts and the breakpoints of text: the last part is pushed when it is
\* not empty
scanBreakpoints(text) ==
  LET st == scanFrom([parts |-> <<>>, breakpoints |-> <<>>, part |-> <<>>], text)
  IN [parts |-> IF st.part # <<>> THEN Append(st.parts, st.part) ELSE st.parts,
      breakpoints |-> st.breakpoints]

\* BAI.has(part): the part is one character, and that one is in BAI
isBAI(part) == Len(part) = 1 /\ part[1] \in BAI

\* The split at a breakpoint when the line is too long
splitDefault(p, spacing, st, breakpoint, chr, part) ==
  CASE breakpoint.type = "SHY" ->
         [lines |-> Append(st.lines, st.line \o <<45>>), line |-> part]
    [] breakpoint.type = "BA" ->
         [lines |-> Append(st.lines, st.line \o chr), line |-> part]
    [] breakpoint.type = "BAI" ->
         [lines |-> Append(st.lines, st.line), line |-> part]
    [] breakpoint.type = "BB" ->
         [lines |-> Append(st.lines, st.line), line |-> chr \o part]
    [] breakpoint.type = "B2" ->
         IF fitsRaw(dAdd(measureText(p.ctx, st.line \o chr), addSpacing(spacing, st.line \o chr)), p.max)
           THEN [lines |-> Append(st.lines, st.line \o chr), line |-> part]
         ELSE IF fitsRaw(dAdd(measureText(p.ctx, chr \o part), addSpacing(spacing, chr \o part)), p.max)
           THEN [lines |-> Append(st.lines, st.line), line |-> chr \o part]
         ELSE [lines |-> Append(Append(st.lines, st.line), chr), line |-> part]

\* One turn (i >= 1) of the loop over the text parts; previous is parts[i - 1]
packPart(p, spacing, st, previous, part, breakpoint) ==
  IF isBAI(previous) /\ isBAI(part) THEN st
  ELSE LET chr == IF breakpoint.type = "SHY" THEN <<>> ELSE <<breakpoint.chr>>
           candidate == st.line \o chr \o part
           rawWidth == dAdd(measureText(p.ctx, candidate), addSpacing(spacing, candidate))
           width == round(rawWidth)
       IN IF breakpoint.type = "BK"
            THEN [lines |-> Append(st.lines, st.line), line |-> part]
          ELSE IF fits(width, p.max)
            THEN [st EXCEPT !.line = candidate]
          ELSE splitDefault(p, spacing, st, breakpoint, chr, part)

\* The loop from part i (1-based; the first part starts the line)
RECURSIVE packFrom(_, _, _, _, _)
packFrom(p, spacing, sc, st, i) ==
  IF i > Len(sc.parts) THEN st
  ELSE packFrom(p, spacing, sc,
                IF i = 1 THEN [st EXCEPT !.line = sc.parts[1]]
                ELSE packPart(p, spacing, st, sc.parts[i - 1], sc.parts[i],
                              sc.breakpoints[i - 1]),
                i + 1)

\* if (line.split('').length !== 0) lines.push(line); return lines
flush(st) == Return(IF st.line # <<>> THEN Append(st.lines, st.line) ELSE st.lines)

packDefault(p, spacing) ==
  IF ~spacing.ok THEN Throw(spacing.unit)
  ELSE IF p.text = <<>> THEN Return(<<>>)
  ELSE flush(packFrom(p, spacing, scanBreakpoints(p.text),
                      [lines |-> <<>>, line |-> <<>>], 1))

computeLinesDefault(p) ==
  packDefault(p, addWordAndLetterSpacing(p.wordSpacing, p.letterSpacing))

\* parameters.text[index + 1] || '' for the 0-based index of the source
charAfter(text, index) ==
  IF index + 2 <= Len(text) THEN <<text[index + 2]>> ELSE <<>>

\* The branch taken once the width is measured, index not yet advanced
placeChar(p, st, chr, type, width) ==
  IF exceeds(width, p.max) /\ st.line # <<>>
    THEN CASE type = "SHY" ->
                [st EXCEPT !.lines = Append(@, st.line \o <<45>>), !.line = <<>>]
           [] type = "BA" ->
                [st EXCEPT !.lines = Append(@, st.line \o <<chr>>), !.line = <<>>]
           [] type = "BAI" ->
                [st EXCEPT !.lines = Append(@, st.line), !.line = <<>>]
           [] OTHER ->
                [st EXCEPT !.lines = Append(@, st.line), !.line = <<chr>>]
  ELSE IF chr # 173 THEN [st EXCEPT !.line = Append(@, chr)]
  ELSE st

\* const next = parameters.text[index + 1] || '' (line 517)
lookAhead(p, st) == charAfter(p.text, st.index)

\* One turn of the loop over the characters
breakAllChar(p, spacing, st, chr) ==
  LET type == checkBreak(chr)
      lineLength == Len(st.line)
  IN IF type = "BK"
       THEN [st EXCEPT !.lines = Append(@, st.line), !.line = <<>>]
     ELSE IF chr \in BAI /\ (lineLength = 0 \/ st.line[lineLength] \in BAI)
       THEN st
     ELSE LET next == lookAhead(p, st)
              measured == IF type = "SHY" THEN st.line \o <<chr>> \o next
                          ELSE st.line \o <<chr>>
              rawWidth == dAdd(measureText(p.ctx, measured), addSpacing(spacing, measured))
              width == ceil(rawWidth)
          IN [placeChar(p, st, chr, type, width) EXCEPT !.index = @ + 1]

RECURSIVE breakAllFrom(_, _, _, _)
breakAllFrom(p, spacing, st, rest) ==
  IF rest = <<>> THEN st
  ELSE breakAllFrom(p, spacing, breakAllChar(p, spacing, st, Head(rest)), Tail(rest))

packBreakAll(p, spacing) ==
  IF ~spacing.ok THEN Throw(spacing.unit)
  ELSE IF p.text = <<>> THEN Return(<<>>)
  ELSE flush(breakAllFrom(p, spacing,
                          [lines |-> <<>>, line |-> <<>>, index |-> 0], p.text))

computeLinesBreakAll(p) ==
  packBreakAll(p, addWordAndLetterSpacing(p.wordSpacing, p.letterSpacing))

(***************************************************************************)
(* Specification SpecLines: a policy is called once on drawn parameters    *)
(***************************************************************************)
\* a letter, U+0020 (BAI), '|' (BA), U+00B4 (BB), U+2014 (B2), U+00AD (SHY)
\* and U+000A (BK)
LineAlphabet == {97, 32, 124, 180, 8212, 173, 10}

LineTexts == SeqsUpTo(LineAlphabet, MaxLen)

\* A fresh context at 16px: the letter advances 1..MaxGlyph px, the soft
\* hyphen nothing or as much as a hyphen
Contexts ==
  {[size |-> dOfInt(16), letter |-> w, shy |-> h] : w \in 1..MaxGlyph, h \in 0..1}

Maxima == {Num(v) : v \in 1..MaxWidth} \cup {NotANumber}

\* word-spacing and letter-spacing as the styles give them: none, normal,
\* a length, a length that pxValue rejects
SpacingValues == { <<>>, <<110, 111, 114, 109, 97, 108>>, <<49, 112, 120>>,
                   <<49, 118, 104>> }

Spacings ==
  { <<ws, ls>> \in SpacingValues \X SpacingValues :
      \/ ws = <<110, 111, 114, 109, 97, 108>> /\ ls = <<>>
      \/ ws = <<49, 112, 120>> /\ ls = <<>>
      \/ ws = <<>> /\ ls \in {<<49, 112, 120>>, <<49, 118, 104>>} }

InitLines ==
  /\ pc = "lines"
  /\ parameters \in
       {[ctx |-> c, text |-> t, max |-> m, wordSpacing |-> sp[1], letterSpacing |-> sp[2]] :
          c \in Contexts, t \in LineTexts, m \in Maxima, sp \in Spacings}
  /\ result = Unused
  /\ widthAt = Unused /\ max = Unused /\ size = Unused
  /\ cur = Unused /\ greater = Unused /\ calls = Unused
  /\ self = Unused /\ host = Unused /\ args = Unused

CallDefault ==
  /\ pc = "lines"
  /\ result' = computeLinesDefault(parameters)
  /\ pc' = "default"
  /\ UNCHANGED <<lineVars, fitVars>>

CallBreakAll ==
  /\ pc = "lines"
  /\ result' = computeLinesBreakAll(parameters)
  /\ pc' = "break-all"
  /\ UNCHANGED <<lineVars, fitVars>>

NextLines == CallDefault \/ CallBreakAll

SpecLines == InitLines /\ [][NextLines]_vars

(***************************************************************************)
(* Properties of the line-packing policies                                 *)
(***************************************************************************)
Packed == pc \in {"default", "break-all"} /\ result.ok

\* The width the default policy compares with the maximum: glyph width plus
\* spacing add-on, rounded
lineWidth(line) ==
  round(dAdd(measureText(parameters.ctx, line),
             addSpacing(addWordAndLetterSpacing(parameters.wordSpacing,
                                                parameters.letterSpacing), line)))

\* A line that holds one TextPart of the text which alone exceeds the
\* maximum, with or without the boundary character resolved next to it
LonePartOverflow(line) ==
  \E i \in 1..Len(scanBreakpoints(parameters.text).parts) :
    LET part == scanBreakpoints(parameters.text).parts[i] IN
      /\ lineWidth(part) > parameters.max.v
      /\ \/ line = part
         \/ Len(line) = Len(part) + 1 /\ SubSeq(line, 1, Len(part)) = part
         \/ Len(line) = Len(part) + 1 /\ SubSeq(line, 2, Len(line)) = part

\* A line that is one boundary character (or the '-' of a soft hyphen) and
\* nothing else
ForcedBoundaryLine(line) ==
  Len(line) = 1 /\ (checkBreak(line[1]) # "false" \/ line[1] = 45)

\* C1: no line the default policy returns is wider than a positive maximum,
\* except a line that is a single TextPart which alone exceeds the maximum
\* and a forced single-boundary-character line.
C1_NoLineExceedsMax ==
  (pc = "default" /\ result.ok /\ ~parameters.max.nan) =>
    \A i \in 1..Len(result.lines) :
      \/ lineWidth(result.lines[i]) <= parameters.max.v
      \/ LonePartOverflow(result.lines[i])
      \/ ForcedBoundaryLine(result.lines[i])

\* What a round trip keeps of the text: everything but collapsible
\* whitespace, soft hyphens and mandatory breaks; and of the output:
\* everything but collapsible whitespace and the '-' rendered for a soft
\* hyphen (no text drawn here contains a '-' of its own)
Dropped == BAI \cup SHY \cup BK \cup {45}

keptChars(text) == Filter(text, (0..12288) \ Dropped)

\* C2: in both policies the concatenated lines are the text, up to dropped
\* or collapsed whitespace, soft hyphens and mandatory breaks: every other
\* character appears exactly once and in the original order.
C2_RoundTrip ==
  Packed => keptChars(Flatten(result.lines)) = keptChars(parameters.text)

\* The places in text of the characters a round trip keeps, in order
RECURSIVE keptPlaces(_, _)
keptPlaces(text, from) ==
  IF from > Len(text) THEN <<>>
  ELSE (IF text[from] \in Dropped THEN <<>> ELSE <<from>>) \o keptPlaces(text, from + 1)

\* What the text holds between its n-th kept character and the next one (or
\* its end): whitespace, soft hyphens and mandatory breaks
gapAfter(text, places, n) ==
  SubSeq(text,
         (IF n = 0 THEN 0 ELSE places[n]) + 1,
         (IF n < Len(places) THEN places[n + 1] ELSE Len(text) + 1) - 1)

\* The kept characters of the first i lines
keptUpTo(i) == keptChars(Flatten(SubSeq(result.lines, 1, i)))

\* What the text holds where line i ends
gapAt(i) ==
  gapAfter(parameters.text, keptPlaces(parameters.text, 1), Len(keptUpTo(i)))

\* Line i ends, and the next begins, at a soft hyphen of the text: between
\* the last character of the lines so far and the next the text holds soft
\* hyphens only, and both are characters of no break class, so that no
\* other break opportunity is there
SplitAtSoftHyphen(i) ==
  LET kept == keptChars(parameters.text)
      n == Len(keptUpTo(i))
  IN /\ i < Len(result.lines)
     /\ n >= 1 /\ n < Len(kept)
     /\ keptUpTo(i) = SubSeq(kept, 1, n)
     /\ checkBreak(kept[n]) = "false" /\ checkBreak(kept[n + 1]) = "false"
     /\ gapAt(i) # <<>>
     /\ \A k \in 1..Len(gapAt(i)) : gapAt(i)[k] \in SHY

EndsWithHyphen(line) == line # <<>> /\ line[Len(line)] = 45

\* C5: in both policies no returned line contains U+00AD; a line closed by
\* a split at a soft hyphen ends with '-'; and a soft hyphen at which no
\* split happens adds nothing: a '-' stands only at the end of a line, only
\* where the text has a soft hyphen, and the lines hold no more characters
\* than the text without its soft hyphens.  (No text drawn here contains a
\* '-' of its own.)
C5_SoftHyphenNeverRendered ==
  Packed =>
    /\ \A i \in 1..Len(result.lines) :
         /\ Count(result.lines[i], SHY) = 0
         /\ \A k \in 1..Len(result.lines[i]) :
              result.lines[i][k] = 45 => k = Len(result.lines[i])
         /\ SplitAtSoftHyphen(i) => EndsWithHyphen(result.lines[i])
         /\ EndsWithHyphen(result.lines[i]) => \E k \in 1..Len(gapAt(i)) : gapAt(i)[k] \in SHY
    /\ Count(Flatten(result.lines), {45}) <= Count(parameters.text, SHY)
    /\ Len(Flatten(result.lines)) - Count(Flatten(result.lines), {45})
         <= Len(parameters.text) - Count(parameters.text, SHY)

\* For every soft hyphen the scan of the break-all policy reaches, in order:
\* the character the look-ahead takes, and the character that follows the
\* soft hyphen in the text; position is the 0-based place of Head(rest)
RECURSIVE lookAheads(_, _, _, _, _)
lookAheads(p, spacing, st, rest, position) ==
  IF rest = <<>> THEN <<>>
  ELSE (IF Head(rest) \in SHY
          THEN <<[used |-> lookAhead(p, st), following |-> charAfter(p.text, position)]>>
        ELSE <<>>)
       \o lookAheads(p, spacing, breakAllChar(p, spacing, st, Head(rest)),
                     Tail(rest), position + 1)

scannedLookAheads ==
  lookAheads(parameters,
             addWordAndLetterSpacing(parameters.wordSpacing, parameters.letterSpacing),
             [lines |-> <<>>, line |-> <<>>, index |-> 0], parameters.text, 0)

\* C12: in the break-all policy, at every soft hyphen the scan reaches, the
\* character of the look-ahead measurement line + hyphen + nextChar is the
\* one that follows that soft hyphen in the text (none at the end of text),
\* also after mandatory breaks or collapsed whitespace were skipped.
C12_LookAheadIsNextChar ==
  (pc = "break-all" /\ result.ok) =>
    \A i \in 1..Len(scannedLookAheads) :
      scannedLookAheads[i].used = scannedLookAheads[i].following

\* C7: with a maximum width of NaN both policies are unbounded: they return
\* (no throw for spacing values they can convert), and only mandatory breaks
\* end a line.
C7_NaNIsUnbounded ==
  (pc \in {"default", "break-all"} /\ parameters.max.nan
     /\ addWordAndLetterSpacing(parameters.wordSpacing, parameters.letterSpacing).ok) =>
    /\ result.ok
    /\ Len(result.lines) <= Count(parameters.text, BK) + 1

(***************************************************************************)
(* maxFontSize (part_000 lines 153-207)                                    *)
(***************************************************************************)
\* A font size is a JavaScript number: an integer, Infinity or NaN
Size(v) == [k |-> "num", v |-> v]

Infinity == [k |-> "inf", v |-> 0]

NaNSize == [k |-> "nan", v |-> 0]

\* Largest size the estimate can reach from a seed that measures at least 1
MaxSize == (MaxBudget \div 2) * MaxBudget

\* Every loop turn calls compute once; the walks are followed this far
MaxCalls == MaxSize + 4

\* compute(size): the rendered width at a font size, rounded up.  The width
\* function is a table over 0..MaxSize continued by its last value; the sizes
\* Infinity and NaN make a font string the context rejects, and it then
\* measures at whatever font it keeps: widthAt.inf, widthAt.nan.
compute(s) ==
  CASE s.k = "inf" -> widthAt.inf
    [] s.k = "nan" -> widthAt.nan
    [] OTHER -> widthAt.table[(IF s.v > MaxSize THEN MaxSize ELSE s.v) + 1]

\* size + d for d = 1 and d = -1
plus(s, d) == IF s.k = "num" THEN Size(s.v + d) ELSE s

\* size > 0
positive(s) == s.k = "inf" \/ (s.k = "num" /\ s.v > 0)

\* Math.floor((size / cur) * max)
estimate(s, c, budget) ==
  IF s.k # "num" THEN s
  ELSE IF c = 0 THEN (IF s.v = 0 THEN NaNSize ELSE Infinity)
  ELSE Size(dFloor(dMulInt(dOfRatio(s.v, c), budget)))

\* size ? size.toString() + 'px' : undefined
pixels(s) == [defined |-> positive(s), size |-> s]

\* walksDown stopping one pixel early
walksDownOffByOne(c, budget, s) == c > budget + 1 /\ positive(s)

\* The condition of the loop that walks down
walksDown(c, budget, s) == c > budget /\ positive(s)

\* The condition of the loop that walks up
walksUp(c, budget) == c < budget

\* Non-decreasing sequences of length n over lo..hi
RECURSIVE Monotone(_, _, _)
Monotone(n, lo, hi) ==
  IF n = 0 THEN {<<>>}
  ELSE UNION {{<<v>> \o t : t \in Monotone(n - 1, v, hi)} : v \in lo..hi}

\* The width functions: non-decreasing in the font size, with widths up to
\* one more than the budget (the search compares widths with the budget, and
\* cannot tell wider from wider still).  The widths at Infinity and at NaN
\* are drawn only where the search can read them: the estimate is Infinity
\* when a positive seed size measures 0, and NaN when the seed size 0
\* measures 0.
WidthFunctions(budget) ==
  UNION {
    IF t[(budget \div 2) + 1] # 0
      THEN {[table |-> t, inf |-> t[MaxSize + 1], nan |-> 0]}
    ELSE IF budget \div 2 > 0
      THEN {[table |-> t, inf |-> i, nan |-> 0] : i \in t[MaxSize + 1]..(budget + 1)}
    ELSE {[table |-> t, inf |-> t[MaxSize + 1], nan |-> n] : n \in 0..(budget + 1)}
    : t \in Monotone(MaxSize + 1, 0, budget + 1)}

InitFit ==
  /\ pc = "fit"
  /\ max \in 1..MaxBudget
  /\ widthAt \in WidthFunctions(max)
  /\ size = Size(0) /\ cur = 0 /\ greater = FALSE /\ calls = 0
  /\ result = Unused
  /\ parameters = Unused /\ self = Unused /\ host = Unused /\ args = Unused

\* Start with half the max size (lines 175-177)
FitSeed ==
  /\ pc = "fit"
  /\ size' = Size(max \div 2)
  /\ cur' = compute(size')
  /\ calls' = calls + 1
  /\ pc' = "seeded"
  /\ UNCHANGED <<widthAt, max, greater, result, lineVars>>

\* Compute next result based on first result (lines 179-181)
FitRefine ==
  /\ pc = "seeded"
  /\ size' = estimate(size, cur, max)
  /\ cur' = compute(size')
  /\ calls' = calls + 1
  /\ pc' = "refined"
  /\ UNCHANGED <<widthAt, max, greater, result, lineVars>>

\* Happy cause we got it already (lines 183-186)
FitHappy ==
  /\ pc = "refined"
  /\ cur = max
  /\ result' = pixels(size)
  /\ pc' = "returned"
  /\ UNCHANGED <<fitVars, lineVars>>

\* The direction of the walk (line 189)
FitDirection ==
  /\ pc = "refined"
  /\ cur # max
  /\ greater' = walksDown(cur, max, size)
  /\ pc' = "down"
  /\ UNCHANGED <<widthAt, max, size, cur, calls, result, lineVars>>

\* One turn of the loop that walks down (lines 190-193)
FitDecrement ==
  /\ pc = "down"
  /\ walksDown(cur, max, size)
  /\ calls < MaxCalls
  /\ size' = plus(size, -1)
  /\ cur' = compute(size')
  /\ calls' = calls + 1
  /\ UNCHANGED <<pc, widthAt, max, greater, result, lineVars>>

\* The loop that walks down is over, and the search walked down (lines 195, 206)
FitDownReturn ==
  /\ pc = "down"
  /\ ~walksDown(cur, max, size)
  /\ greater
  /\ result' = pixels(size)
  /\ pc' = "returned"
  /\ UNCHANGED <<fitVars, lineVars>>

\* The loop that walks down is over, and the search did not walk down (line 195)
FitTurnUp ==
  /\ pc = "down"
  /\ ~walksDown(cur, max, size)
  /\ ~greater
  /\ pc' = "up"
  /\ UNCHANGED <<fitVars, result, lineVars>>

\* One turn of the loop that walks up, the next size fits (lines 196-203)
FitIncrement ==
  /\ pc = "up"
  /\ walksUp(cur, max)
  /\ calls < MaxCalls
  /\ compute(plus(size, 1)) <= max
  /\ cur' = compute(plus(size, 1))
  /\ size' = plus(size, 1)
  /\ calls' = calls + 1
  /\ UNCHANGED <<pc, widthAt, max, greater, result, lineVars>>

\* One turn of the loop that walks up, the next size is too wide (lines 197-200)
FitUpOvershoot ==
  /\ pc = "up"
  /\ walksUp(cur, max)
  /\ calls < MaxCalls
  /\ compute(plus(size, 1)) > max
  /\ cur' = compute(plus(size, 1))
  /\ calls' = calls + 1
  /\ result' = pixels(size)
  /\ pc' = "returned"
  /\ UNCHANGED <<widthAt, max, size, greater, lineVars>>

\* The loop that walks up is over (line 206)
FitUpReturn ==
  /\ pc = "up"
  /\ ~walksUp(cur, max)
  /\ result' = pixels(size)
  /\ pc' = "returned"
  /\ UNCHANGED <<fitVars, lineVars>>

NextFit ==
  \/ FitSeed \/ FitRefine \/ FitHappy \/ FitDirection
  \/ FitDecrement \/ FitDownReturn \/ FitTurnUp
  \/ FitIncrement \/ FitUpOvershoot \/ FitUpReturn

SpecFit == InitFit /\ [][NextFit]_vars

\* maxFontSize returned a size, not undefined
ReturnedSize == pc = "returned" /\ result.defined

\* C3: for a positive budget and a width function that never decreases with
\* the font size, a size maxFontSize returns renders no wider than the budget.
C3_ReturnedSizeFits == ReturnedSize => compute(result.size) <= max

\* A size returned after the search walked down
C3_Witness ==
  ReturnedSize /\ result.size.k = "num" /\ greater /\ calls > 2

\* C4: for a positive budget and a width function that never decreases with
\* the font size, the size after the one maxFontSize returns renders wider
\* than the budget, on every return path.  (Stated for the finite sizes.)
C4_ReturnedSizeIsLocallyOptimal ==
  (ReturnedSize /\ result.size.k = "num") => compute(plus(result.size, 1)) > max

\* A turn of the loop that walks up after which every later turn is the
\* same: the size is past the table, so every later size measures the last
\* width of the table, and that width is below the budget
EndlessUp ==
  /\ pc = "up"
  /\ walksUp(cur, max)
  /\ size.k = "num" /\ size.v >= MaxSize
  /\ compute(plus(size, 1)) < max

\* C11: for a positive budget and a width function that never decreases with
\* the font size, a constant one included, the search of maxFontSize ends:
\* it never comes to a turn of the loop that walks up after which every turn
\* is the same.  (Stated for the finite sizes.)
C11_SearchTerminates == ~EndlessUp

(***************************************************************************)
(* Specification SpecPx: pxValue on drawn length strings, alone and under  *)
(* the line-packing call that converts a letter-spacing                    *)
(***************************************************************************)
MaxNumLen == 4   \* longest number in a length string, in characters

\* Decimal numbers written with the digits 0, 1, 2, 5: an integer part
\* without needless leading zeros, then maybe a dot and fractional digits
NumberChars == {48, 49, 50, 53, 46}

IsDecimal(n) ==
  LET whole == DigitRun(n, 1)
      frac == DigitRun(n, whole + 2)
  IN /\ whole >= 1
     /\ (whole > 1 => n[1] # 48)
     /\ \/ Len(n) = whole
        \/ (n[whole + 1] = 46 /\ frac >= 1 /\ Len(n) = whole + 1 + frac)

Numbers == {n \in SeqsUpTo(NumberChars, MaxNumLen) : IsDecimal(n)}

\* px, pt, em, rem, and three units pxValue does not know: vh, %, none
SupportedUnits == { <<112, 120>>, <<112, 116>>, <<101, 109>>, <<114, 101, 109>> }

Units == SupportedUnits \cup { <<118, 104>>, <<37>>, <<>> }

InitPx ==
  /\ pc = "px"
  /\ args \in {[number |-> n, unit |-> u, options |-> [base |-> b]] :
                 n \in Numbers, u \in Units, b \in {0, 10}}
  /\ result = Unused
  /\ parameters = Unused /\ self = Unused /\ host = Unused
  /\ widthAt = Unused /\ max = Unused /\ size = Unused
  /\ cur = Unused /\ greater = Unused /\ calls = Unused

CallPxValue ==
  /\ pc = "px"
  /\ result' = pxValue(args.number \o args.unit, args.options)
  /\ pc' = "converted"
  /\ UNCHANGED <<lineVars, fitVars>>

\* computeLinesDefault on a one-letter text with the length as letter-spacing
CallLinesWithSpacing ==
  /\ pc = "px"
  /\ args.options.base = 0
  /\ result' = computeLinesDefault(
                 [ctx |-> [size |-> dOfInt(16), letter |-> 1, shy |-> 0],
                  text |-> <<97>>, max |-> Num(MaxWidth),
                  wordSpacing |-> <<>>, letterSpacing |-> args.number \o args.unit])
  /\ pc' = "packed"
  /\ UNCHANGED <<lineVars, fitVars>>

NextPx == CallPxValue \/ CallLinesWithSpacing

SpecPx == InitPx /\ [][NextPx]_vars

\* The number of fractional digits of a decimal string
fractionLength(n) == Len(n) - DigitRun(n, 1) - (IF Len(n) > DigitRun(n, 1) THEN 1 ELSE 0)

\* The double nearest to k / d times the number a decimal string writes
written(n, k, d) ==
  dOfRatio(DigitsValue(Filter(n, Digits)) * k, d * Pow10(fractionLength(n)))

\* Two doubles that are the same up to the rounding of an operation: neither
\* is more than 2^-52 of itself above the other
sameUpToRounding(x, y) ==
  /\ dCmp(x, dAdd(y, dScale2(y, -52))) <= 0
  /\ dCmp(y, dAdd(x, dScale2(x, -52))) <= 0

\* C10: for a decimal number followed by a unit, pxValue returns the number
\* for px, the number divided by 96/72 for pt, the number times the base font
\* size (16 unless given) for em and rem, each up to the rounding of the
\* operation on doubles; for any other unit it fails with an error naming
\* the unit, and the line-packing call that needed the conversion fails with
\* that error.  (An error names the unit when the text it quotes ends with
\* the unit.)
C10_PxValueConverts ==
  /\ pc = "converted" =>
       CASE args.unit = <<112, 120>> ->
              result.ok /\ ~result.nan /\ result.v = written(args.number, 1, 1)
         [] args.unit = <<112, 116>> ->
              /\ result.ok /\ ~result.nan
              /\ sameUpToRounding(result.v, written(args.number, 3, 4))
         [] args.unit \in { <<101, 109>>, <<114, 101, 109>> } ->
              /\ result.ok /\ ~result.nan
              /\ sameUpToRounding(
                   result.v,
                   written(args.number,
                           IF args.options.base = 0 THEN 16 ELSE args.options.base, 1))
         [] OTHER -> ~result.ok /\ EndsWith(result.unit, args.unit)
  /\ pc = "packed" =>
       IF args.unit \in SupportedUnits THEN result.ok
       ELSE ~result.ok /\ EndsWith(result.unit, args.unit)

(***************************************************************************)
(* Text preparation (part_001 lines 259-308)                               *)
(***************************************************************************)
\* Letters compare without case under the i flag (of the characters that
\* are no ASCII letters none compares equal to one)
lower(c) == IF c \in 65..90 THEN c + 32 ELSE c

\* The literal token tok (in lower case) matches s at i
TokenAt(s, tok, i) ==
  /\ i + Len(tok) - 1 <= Len(s)
  /\ \A k \in 1..Len(tok) : lower(s[i + k - 1]) = tok[k]

\* Length of the match of /<br\s*\/?>/i in s at i, 0 when there is none
RECURSIVE SpaceRun(_, _)
SpaceRun(s, i) ==
  IF i <= Len(s) /\ s[i] \in JsWhitespace THEN 1 + SpaceRun(s, i + 1) ELSE 0

brAt(s, i) ==
  IF ~TokenAt(s, <<60, 98, 114>>, i) THEN 0
  ELSE LET afterSpace == i + 3 + SpaceRun(s, i + 3)
           afterSlash == IF afterSpace <= Len(s) /\ s[afterSpace] = 47
                         THEN afterSpace + 1 ELSE afterSpace
       IN IF afterSlash <= Len(s) /\ s[afterSlash] = 62
          THEN afterSlash + 1 - i ELSE 0

\* replace(/tok/gi, rep): the matches from left to right, none overlapping
RECURSIVE replaceToken(_, _, _)
replaceToken(s, tok, rep) ==
  IF s = <<>> THEN <<>>
  ELSE IF TokenAt(s, tok, 1)
       THEN <<rep>> \o replaceToken(SubSeq(s, Len(tok) + 1, Len(s)), tok, rep)
       ELSE <<Head(s)>> \o replaceToken(Tail(s), tok, rep)

\* replace(/<br\s*\/?>/gi, '\n')
RECURSIVE replaceBr(_)
replaceBr(s) ==
  IF s = <<>> THEN <<>>
  ELSE IF brAt(s, 1) > 0
       THEN <<10>> \o replaceBr(SubSeq(s, brAt(s, 1) + 1, Len(s)))
       ELSE <<Head(s)>> \o replaceBr(Tail(s))

\* The warning about encoded entities changes nothing and is left out
prepareText(text) ==
  replaceToken(
    replaceToken(
      replaceBr(
        replaceToken(text, <<60, 119, 98, 114, 62>>, 8203)),       \* <wbr>
      <<38, 115, 104, 121, 59>>, 173),                             \* &shy;
    <<38, 109, 100, 97, 115, 104, 59>>, 8212)                      \* &mdash;

\* replace(/[\r\n]/gm, ' ')
RECURSIVE replaceNewlines(_)
replaceNewlines(s) ==
  IF s = <<>> THEN <<>>
  ELSE <<IF Head(s) \in {10, 13} THEN 32 ELSE Head(s)>> \o replaceNewlines(Tail(s))

\* The keywords of white-space: pre, pre-wrap, pre-line, normal
kwPre == <<112, 114, 101>>

kwPreWrap == <<112, 114, 101, 45, 119, 114, 97, 112>>

kwPreLine == <<112, 114, 101, 45, 108, 105, 110, 101>>

kwNormal == <<110, 111, 114, 109, 97, 108>>

\* ws is the white-space value, <<>> when none is given
normalizeWhitespace(text, ws) ==
  CASE ws = kwPre -> text
    [] ws = kwPreWrap -> text
    [] ws = kwPreLine -> Trim(CollapseWs(text))
    [] OTHER -> Trim(CollapseWs(replaceNewlines(text)))

(***************************************************************************)
(* Specification SpecPrepare: the two helpers on drawn strings             *)
(***************************************************************************)
MaxFragments == 3   \* longest input, in fragments

\* Pieces of markup and of text: "<br", ">", "<br>", "<BR/>", "<wbr>", "<w",
\* "&shy;", "&", "shy;", "&mdash;", "a", " ", a newline, a tab
Fragments ==
  { <<60, 98, 114>>, <<62>>, <<60, 98, 114, 62>>, <<60, 66, 82, 47, 62>>,
    <<60, 119, 98, 114, 62>>, <<60, 119>>, <<38, 115, 104, 121, 59>>, <<38>>,
    <<115, 104, 121, 59>>, <<38, 109, 100, 97, 115, 104, 59>>, <<97>>, <<32>>,
    <<10>>, <<9>> }

PrepareInputs == {Flatten(f) : f \in SeqsUpTo(Fragments, MaxFragments)}

WhiteSpaces == {<<>>, kwNormal, kwPre, kwPreWrap, kwPreLine}

InitPrepare ==
  /\ pc = "prepare"
  /\ args \in {[text |-> t, ws |-> w] : t \in PrepareInputs, w \in WhiteSpaces}
  /\ result = Unused
  /\ parameters = Unused /\ self = Unused /\ host = Unused
  /\ widthAt = Unused /\ max = Unused /\ size = Unused
  /\ cur = Unused /\ greater = Unused /\ calls = Unused

CallPrepareText ==
  /\ pc = "prepare"
  /\ args.ws = <<>>
  /\ result' = prepareText(args.text)
  /\ pc' = "prepared"
  /\ UNCHANGED <<lineVars, fitVars>>

CallNormalizeWhitespace ==
  /\ pc = "prepare"
  /\ result' = normalizeWhitespace(args.text, args.ws)
  /\ pc' = "normalized"
  /\ UNCHANGED <<lineVars, fitVars>>

NextPrepare == CallPrepareText \/ CallNormalizeWhitespace

SpecPrepare == InitPrepare /\ [][NextPrepare]_vars

\* C8: prepareText applied to its own output returns it unchanged, and so
\* does normalizeWhitespace under the same white-space policy.
C8_PrepareIsIdempotent ==
  /\ pc = "prepared" => prepareText(result) = result
  /\ pc = "normalized" => normalizeWhitespace(result, args.ws) = result

(***************************************************************************)
(* The TextMetrics facade (part_000)                                       *)
(***************************************************************************)
\* The style properties followed here.  An options object, and an element's
\* computed style, maps each to a string; <<>> stands for a property that is
\* not there, and Blank for a property that is there with the value '' or
\* undefined: both are falsy where they are read, but a spread copies the
\* second.
Props ==
  {"white-space", "text-transform", "word-break", "line-height",
   "letter-spacing", "word-spacing", "font-size", "width"}

NoProps == [p \in Props |-> <<>>]

Blank == <<-1>>

kwBreakAll == <<98, 114, 101, 97, 107, 45, 97, 108, 108>>

kwUppercase == <<117, 112, 112, 101, 114, 99, 97, 115, 101>>

kwLowercase == <<108, 111, 119, 101, 114, 99, 97, 115, 101>>

\* DEFAULTS['font-size'] (part_001 line 95): 16px
DefaultFontSize == <<49, 54, 112, 120>>

\* prop(src, attr, defaultValue)
prop(src, attr, defaultValue) ==
  IF src[attr] # <<>> /\ src[attr] # Blank THEN src[attr] ELSE defaultValue

\* this.style.getPropertyValue(key): the computed style of the element, or,
\* without an element, the object getStyle builds over the instance's
\* overwrites (an options.style declaration is not among the inputs)
getPropertyValue(inst, key) ==
  IF inst.el.present THEN inst.el.computed[key]
  ELSE prop(inst.overwrites, key, <<>>)

\* this.style.width: a property only a computed style has
styleWidth(inst) == IF inst.el.present THEN inst.el.computed["width"] ELSE <<>>

\* a || b for strings: the empty string and undefined are falsy
either(a, b) == IF a # <<>> /\ a # Blank THEN a ELSE b

\* Number.parseInt(s, 10) of a string without sign
parseInt(s) ==
  LET t == TrimLeft(s)
      n == DigitRun(t, 1)
  IN IF n = 0 THEN NotANumber ELSE Num(DigitsValue(SubSeq(t, 1, n)))

\* a || b for numbers: NaN and 0 are falsy
orElse(a, b) == IF a.nan \/ a.v = 0 THEN b ELSE a

padding(inst) ==
  IF inst.el.present
  THEN LET left == parseInt(either(inst.el.paddingLeft, <<48>>))
           right == parseInt(either(inst.el.paddingRight, <<48>>))
       IN IF left.nan \/ right.nan THEN NotANumber ELSE Num(left.v + right.v)
  ELSE Num(0)

getText(el) == IF el.present THEN el.textContent ELSE <<>>

\* {...this.overwrites, ...normalizeOptions(overwrites)}: every property
\* that is there in overwrites is copied over the instance's, a blank one too
mergeStyles(inst, overwrites) ==
  [p \in Props |-> IF overwrites[p] # <<>> THEN overwrites[p] ELSE inst.overwrites[p]]

parseArgs(inst, text, options, overwrites) ==
  LET styles == mergeStyles(inst, overwrites)
      ws == prop(styles, "white-space", getPropertyValue(inst, "white-space"))
  IN [text |-> IF text = <<>> /\ inst.el.present
               THEN normalizeWhitespace(getText(inst.el), ws)
               ELSE prepareText(normalizeWhitespace(text, <<>>)),
      options |-> options,
      overwrites |-> overwrites,
      styles |-> styles]

\* The font size of the font string getFont builds, or the error of pxValue.
\* (The weight, style, variant and family of the font string are read the
\* same way and select the face, which is fixed here.)
getFont(inst, options) ==
  LET fontSize == prop(options, "font-size", getPropertyValue(inst, "font-size"))
  IN pxValue(either(fontSize, DefaultFontSize), NoOptions)

\* throw new Error('Canvas support required\n' + typedError.message)
CanvasRequired == [ok |-> FALSE, lines |-> <<>>, unit |-> <<>>, canvas |-> TRUE]

\* The context of a host that has a canvas (lines 353-357).  It draws letters
\* 1px wide at 16px and the soft hyphen not at all; a font string whose size
\* is NaNpx is no font, and assigning it leaves the context at the font a
\* fresh canvas context has, 10px sans-serif.
getContext2d(font) ==
  [size |-> IF font.nan THEN dOfInt(10) ELSE font.v, letter |-> 1, shy |-> 0]

\* String.prototype.toUpperCase and toLowerCase map character by character.
\* The mapping is that of the characters up to U+00FF: a-z, the letters of
\* U+00E0..U+00FE (not the division sign), the sharp s, which becomes SS,
\* the y with diaeresis and the micro sign, which leave the range; and back.
\* The cased letters beyond U+00FF are not among the texts followed here,
\* and their mapping is left out.
upper(c) ==
  IF c \in 97..122 \/ (c \in 224..254 /\ c # 247) THEN <<c - 32>>
  ELSE IF c = 223 THEN <<83, 83>>
  ELSE IF c = 255 THEN <<376>>
  ELSE IF c = 181 THEN <<924>>
  ELSE <<c>>

toUpperCase(text) == Flatten([i \in 1..Len(text) |-> upper(text[i])])

lowerCase(c) ==
  IF c \in 65..90 \/ (c \in 192..222 /\ c # 215) THEN c + 32 ELSE c

toLowerCase(text) == [i \in 1..Len(text) |-> lowerCase(text[i])]

\* getStyledText(text, this.style)
getStyledText(text, inst) ==
  CASE getPropertyValue(inst, "text-transform") = kwUppercase -> toUpperCase(text)
    [] getPropertyValue(inst, "text-transform") = kwLowercase -> toLowerCase(text)
    [] OTHER -> text

\* Get max width (lines 113-120)
maxWidth(inst, parsed) ==
  LET given == parseInt(prop(parsed.options, "width",
                             prop(parsed.overwrites, "width", <<>>)))
      box == Num(IF inst.el.present THEN inst.el.offsetWidth ELSE 0)
      styled == parseInt(prop(parsed.styles, "width", <<48>>))
      computed == parseInt(styleWidth(inst))
      found == orElse(orElse(orElse(given, box), styled), computed)
  IN IF found.nan \/ padding(inst).nan THEN NotANumber
     ELSE Num(found.v - padding(inst).v)

\* Different scenario when break-word is allowed (lines 128-145)
dispatch(p, wordBreak) ==
  IF wordBreak = kwBreakAll THEN computeLinesBreakAll(p) ELSE computeLinesDefault(p)

\* The rest of lines once the arguments are parsed and the font is built
\* (lines 113-145)
linesWith(inst, parsed, font) ==
  IF ~font.ok THEN Throw(font.unit)
  ELSE IF ~host.canvas THEN CanvasRequired
  ELSE dispatch([ctx |-> getContext2d(font),
                 text |-> getStyledText(parsed.text, inst),
                 max |-> maxWidth(inst, parsed),
                 wordSpacing |-> prop(parsed.styles, "word-spacing",
                                      getPropertyValue(inst, "word-spacing")),
                 letterSpacing |-> prop(parsed.styles, "letter-spacing",
                                        getPropertyValue(inst, "letter-spacing"))],
                prop(parsed.styles, "word-break", getPropertyValue(inst, "word-break")))

linesParsed(inst, parsed) == linesWith(inst, parsed, getFont(inst, parsed.styles))

lines(inst, text, options, overwrites) ==
  linesParsed(inst, parseArgs(inst, text, options, overwrites))

\* Math.ceil(n * lineHeight || 0), in px
ceilTimes(n, lineHeight) ==
  IF lineHeight.nan THEN 0
  ELSE dCeil(dMulInt(toDouble(lineHeight), n))

lineHeightOf(inst, parsed) ==
  parseFloat(prop(parsed.styles, "line-height", getPropertyValue(inst, "line-height")))

\* Math.ceil(lines.length * lineHeight || 0), or the error lines threw
heightOf(packed, lineHeight) ==
  IF ~packed.ok THEN [ok |-> FALSE, v |-> 0, unit |-> packed.unit, canvas |-> packed.canvas]
  ELSE [ok |-> TRUE, v |-> ceilTimes(Len(packed.lines), lineHeight), unit |-> <<>>,
        canvas |-> FALSE]

heightParsed(inst, parsed) ==
  heightOf(lines(inst, parsed.text, parsed.options, parsed.styles),
           lineHeightOf(inst, parsed))

height(inst, text, options, overwrites) ==
  heightParsed(inst, parseArgs(inst, text, options, overwrites))

(***************************************************************************)
(* Specification SpecFacade: lines and height are called on an instance    *)
(***************************************************************************)
\* Two or three values for each property
PropValues ==
  [p \in Props |->
     CASE p = "white-space" -> {kwPre, kwPreLine}
       [] p = "text-transform" -> {kwUppercase, kwLowercase}
       [] p = "word-break" -> {kwBreakAll, kwNormal}
       [] p = "line-height" -> {<<49, 112, 120>>, <<49, 46, 53>>}              \* 1px, 1.5
       [] p = "letter-spacing" -> {<<49, 112, 120>>, <<50, 112, 120>>}         \* 1px, 2px
       [] p = "word-spacing" -> {<<49, 112, 120>>, <<49, 118, 104>>}           \* 1px, 1vh
       [] p = "font-size" -> {<<51, 50, 112, 120>>, <<56, 112, 120>>,
                              <<112, 120>>}                                    \* 32px, 8px, px
       [] p = "width" -> {<<50, 112, 120>>, <<52, 112, 120>>}]                 \* 2px, 4px

\* An options object or a computed style: at most one property is set
Layers ==
  {NoProps} \cup
  UNION {{[NoProps EXCEPT ![p] = v] : v \in PropValues[p]} : p \in Props}

\* The overwrites of a call: the one property may also be there as ''
CallLayers == Layers \cup {[NoProps EXCEPT ![p] = Blank] : p \in Props}

\* A browser with a canvas, and a host without one
Hosts == {[canvas |-> c] : c \in BOOLEAN}

NoElement ==
  [present |-> FALSE, offsetWidth |-> 0, textContent |-> <<>>, computed |-> NoProps,
   paddingLeft |-> <<>>, paddingRight |-> <<>>]

\* An element whose text content is "a\nb b"
Elements ==
  {NoElement} \cup
  {[present |-> TRUE, offsetWidth |-> w, textContent |-> <<97, 10, 98, 32, 98>>,
    computed |-> c, paddingLeft |-> pl, paddingRight |-> <<48, 112, 120>>] :
      w \in {0, 3}, c \in Layers, pl \in {<<48, 112, 120>>, <<49, 112, 120>>}}

\* No text, "a b \u00DF", "a<br>B"
FacadeTexts == { <<>>, <<97, 32, 98, 32, 223>>, <<97, 60, 98, 114, 62, 66>> }

\* options.width: none, or 3
FacadeWidths == { <<>>, <<51>> }

SetCount(layer) == Cardinality({p \in Props : layer[p] # <<>>})

InitFacade ==
  /\ pc = "facade"
  /\ host \in Hosts
  /\ \E e \in Elements, o \in Layers :
       /\ SetCount(e.computed) + SetCount(o) <= 2
       /\ self = [el |-> e, overwrites |-> o]
       /\ \E t \in FacadeTexts, w \in FacadeWidths, c \in CallLayers :
            /\ SetCount(e.computed) + SetCount(o) + SetCount(c) <= 2
            /\ args = [text |-> t, options |-> [NoProps EXCEPT !["width"] = w],
                       overwrites |-> c]
  /\ result = Unused
  /\ parameters = Unused
  /\ widthAt = Unused /\ max = Unused /\ size = Unused
  /\ cur = Unused /\ greater = Unused /\ calls = Unused

CallLines ==
  /\ pc = "facade"
  /\ result' = lines(self, args.text, args.options, args.overwrites)
  /\ pc' = "lines-returned"
  /\ UNCHANGED <<lineVars, fitVars>>

CallHeight ==
  /\ pc = "facade"
  /\ result' = height(self, args.text, args.options, args.overwrites)
  /\ pc' = "height-returned"
  /\ UNCHANGED <<lineVars, fitVars>>

NextFacade == CallLines \/ CallHeight

SpecFacade == InitFacade /\ [][NextFacade]_vars

\* C6: height returns ceil(lineCount * lineHeightPx), where lineCount is the
\* number of lines that lines returns for the same text, options and
\* overrides on the same instance (and height throws what lines throws).
C6_HeightCountsTheLines ==
  pc = "height-returned" =>
    LET packed == lines(self, args.text, args.options, args.overwrites)
        lineHeight == lineHeightOf(self, parseArgs(self, args.text, args.options, args.overwrites))
    IN /\ result.ok = packed.ok
       /\ (result.ok /\ ~lineHeight.nan) =>
            result.v = ceilTimes(Len(packed.lines), lineHeight)

\* The value of a property by precedence: call-site override, then
\* instance-level override, then the element's resolved style, then the
\* built-in default
effective(p) ==
  either(args.overwrites[p],
    either(self.overwrites[p],
      either(IF self.el.present THEN self.el.computed[p] ELSE <<>>,
             IF p = "font-size" THEN DefaultFontSize ELSE <<>>)))

\* What lines returns when each property it reads has its value by precedence
linesByPrecedence ==
  LET parsed == parseArgs(self, args.text, args.options, args.overwrites)
      text == IF args.text = <<>> /\ self.el.present
              THEN normalizeWhitespace(getText(self.el), effective("white-space"))
              ELSE parsed.text
      font == pxValue(effective("font-size"), NoOptions)
      p == [ctx |-> getContext2d(font),
            text |-> CASE effective("text-transform") = kwUppercase -> toUpperCase(text)
                       [] effective("text-transform") = kwLowercase -> toLowerCase(text)
                       [] OTHER -> text,
            max |-> maxWidth(self, parsed),
            wordSpacing |-> effective("word-spacing"),
            letterSpacing |-> effective("letter-spacing")]
  IN IF ~font.ok THEN Throw(font.unit)
     ELSE IF ~host.canvas THEN CanvasRequired
     ELSE IF effective("word-break") = kwBreakAll THEN computeLinesBreakAll(p)
     ELSE computeLinesDefault(p)

\* C9: every style property a measurement uses takes its value by the
\* precedence call-site override > instance-level override > resolved element
\* style > built-in default.
C9_StylePrecedence == pc = "lines-returned" => result = linesByPrecedence

====
